---- MODULE Spec2Model ----
(***************************************************************************)
(* Pulse of Korea: the population estimator and the WebSocket broadcaster  *)
(* of src/population_manager.py, with the connection handler and the       *)
(* administrative update endpoint of src/main.py.                          *)
(*                                                                         *)
(* Time is the wall clock in whole seconds since 2024-01-01T00:00:00Z.     *)
(* The code computes in IEEE doubles; the model evaluates the same         *)
(* expressions in exact rational arithmetic and truncates as int() does.   *)
(* Rates in percent are carried in hundredths of a percent (-0.21 % is     *)
(* -21), per-second rates as the annual count over SecondsPerYear.         *)
(***************************************************************************)
EXTENDS Integers, Sequences, FiniteSets

(***************************************************************************)
(* Bounds of the model.                                                    *)
(***************************************************************************)
\* viewers that may connect in the membership specification
MaxViewers == 2
\* last clock value of the membership specification
MaxClock == 2
\* last clock value of the resync specification
MaxTime == 61
\* seconds the broadcaster may run behind in the resync specification, and
\* last clock value of the administration specification
MaxLate == 1
\* clock jumps in one behaviour of the estimator specification
MaxAdvances == 3
\* calls of the manager's update_base_data in one behaviour
MaxUpdates == 1

(***************************************************************************)
(* Program constants.                                                      *)
(***************************************************************************)
broadcast_interval == 1
resync_interval == 30
\* 24 * 60 * 60
SecondsPerDay == 86400
\* 365.25 * 24 * 60 * 60
SecondsPerYear == 31557600
\* timedelta(hours=9), in seconds
KstOffset == 32400
\* datetime(2024, 1, 1, tzinfo=timezone.utc).timestamp(), on the model's clock
base_timestamp == 0
\* annual_growth_rate / 100 with the rate in hundredths of a percent
PercentScale == 10000

SK == "south_korea"
NK == "north_korea"

\* CountryData as constructed in PopulationManager.__init__
\* (base_date "<year>-01-01T00:00:00Z" is carried as its year)
InitSouthKorea ==
    [base_population |-> 51628117, base_year |-> 2024, base_date |-> 2024,
     annual_births |-> 216215, annual_deaths |-> 325162,
     annual_growth_rate |-> -21]

InitNorthKorea ==
    [base_population |-> 25971909, base_year |-> 2024, base_date |-> 2024,
     annual_births |-> 342829, annual_deaths |-> 238941,
     annual_growth_rate |-> 40]

(***************************************************************************)
(* Exact arithmetic on values whose products exceed 32-bit integers.       *)
(* MulDivMod(a, b, c) is <<q, r>> with a * b = q * c + r and 0 <= r < c,   *)
(* for b >= 0 and c > 0, by doubling on the bits of b.                     *)
(***************************************************************************)
RECURSIVE MulDivMod(_, _, _)
MulDivMod(a, b, c) ==
    IF b = 0 THEN <<0, 0>>
    ELSE LET h  == MulDivMod(a, b \div 2, c)
             q2 == 2 * h[1] + ((2 * h[2]) \div c)
             r2 == (2 * h[2]) % c
         IN  IF b % 2 = 0 THEN <<q2, r2>>
             ELSE <<q2 + (a \div c) + ((r2 + (a % c)) \div c),
                    (r2 + (a % c)) % c>>

\* floor(a * b / c)
MulDivFloor(a, b, c) == MulDivMod(a, b, c)[1]

(***************************************************************************)
(* The estimator: PopulationManager.calculate_current_population and its   *)
(* helpers.                                                                *)
(***************************************************************************)
\* the elapsed time taken from the Korean local clock reading
ElapsedKstShifted(current_time) == current_time + KstOffset - base_timestamp
\* time_elapsed_seconds = current_time - base_timestamp
ElapsedSeconds(current_time) == current_time - base_timestamp

\* the growth increment counted from the country's own base_date (the first
\* second of that year; 2024 has 366 days), and none before it
GrowthSinceBaseDate(data, current_time) ==
    LET anchor == base_timestamp
                      + (data.base_date - 2024) * 365 * SecondsPerDay
                      + (IF data.base_date > 2024 THEN SecondsPerDay ELSE 0)
        elapsed == IF current_time > anchor THEN current_time - anchor ELSE 0
        x == data.annual_growth_rate * data.base_population
        y == MulDivMod(x, elapsed, SecondsPerYear)
    IN  [floor |-> y[1] \div PercentScale,
         frac  |-> y[1] % PercentScale,
         whole |-> (y[2] = 0) /\ (y[1] % PercentScale = 0)]
\* growth increment (annual_growth_rate / 100) * base_population *
\* (time_elapsed_days / 365.25) as an exact rational: its floor, the first
\* four decimals' worth of its fractional part (frac, in 1/PercentScale,
\* rounded down) and whether it is a whole number
GrowthIncrement(data, current_time) ==
    LET x == data.annual_growth_rate * data.base_population
        y == MulDivMod(x, ElapsedSeconds(current_time), SecondsPerYear)
    IN  [floor |-> y[1] \div PercentScale,
         frac  |-> y[1] % PercentScale,
         whole |-> (y[2] = 0) /\ (y[1] % PercentScale = 0)]

\* round(base_population + increment): to the nearest integer
RoundNearest(base_population, inc) ==
    IF 2 * inc.frac >= PercentScale
    THEN base_population + inc.floor + 1
    ELSE base_population + inc.floor
\* int(base_population + increment): truncation toward zero
IntTruncate(base_population, inc) ==
    IF inc.whole \/ base_population + inc.floor >= 0
    THEN base_population + inc.floor
    ELSE base_population + inc.floor + 1

\* the estimate with the sign of the growth rate dropped
PopulationAbsRate(data, current_time) ==
    IntTruncate(data.base_population,
        GrowthIncrement([data EXCEPT !.annual_growth_rate =
                            IF @ < 0 THEN -@ ELSE @], current_time))
\* self.sk_population / self.nk_population
EstimatePopulation(data, current_time) ==
    IntTruncate(data.base_population, GrowthIncrement(data, current_time))

\* get_seconds_since_midnight_kst for a clock reading now_utc
get_seconds_since_midnight_kst(now_utc) == (now_utc + KstOffset) % SecondsPerDay

\* get_korea_timezone_now().date(), as a day number
KoreaDate(now_utc) == (now_utc + KstOffset) \div SecondsPerDay

\* the count of a whole day: day_fraction left out
EventsTodayWholeDay(annual_count, seconds_today) ==
    MulDivFloor(annual_count, SecondsPerDay, SecondsPerYear)
\* int(annual_count * day_fraction / 365.25), day_fraction = seconds_today / 86400
EventsToday(annual_count, seconds_today) ==
    MulDivFloor(annual_count, seconds_today, SecondsPerYear)

\* the snapshot with South Korea's population as its total
PopulationStateSouthTotal(current_time, seconds_clock, sk_data, nk_data) ==
    LET sk_population == EstimatePopulation(sk_data, current_time)
        nk_population == EstimatePopulation(nk_data, current_time)
        seconds_today == get_seconds_since_midnight_kst(seconds_clock)
    IN  [timestamp |-> current_time,
         south_korea_population |-> sk_population,
         north_korea_population |-> nk_population,
         total_population |-> sk_population,
         sk_births_today |-> EventsToday(sk_data.annual_births, seconds_today),
         sk_deaths_today |-> EventsToday(sk_data.annual_deaths, seconds_today),
         nk_births_today |-> EventsToday(nk_data.annual_births, seconds_today),
         nk_deaths_today |-> EventsToday(nk_data.annual_deaths, seconds_today),
         seconds_since_midnight_kst |-> seconds_today]
\* the PopulationState calculate_current_population returns when time.time()
\* reads current_time and the later datetime.now() of
\* get_seconds_since_midnight_kst reads seconds_clock
\* (recent_events is always the empty list and is left out)
PopulationState(current_time, seconds_clock, sk_data, nk_data) ==
    LET sk_population == EstimatePopulation(sk_data, current_time)
        nk_population == EstimatePopulation(nk_data, current_time)
        seconds_today == get_seconds_since_midnight_kst(seconds_clock)
    IN  [timestamp |-> current_time,
         south_korea_population |-> sk_population,
         north_korea_population |-> nk_population,
         total_population |-> sk_population + nk_population,
         sk_births_today |-> EventsToday(sk_data.annual_births, seconds_today),
         sk_deaths_today |-> EventsToday(sk_data.annual_deaths, seconds_today),
         nk_births_today |-> EventsToday(nk_data.annual_births, seconds_today),
         nk_deaths_today |-> EventsToday(nk_data.annual_deaths, seconds_today),
         seconds_since_midnight_kst |-> seconds_today]

\* no PopulationState computed yet
NoState ==
    [timestamp |-> -1, south_korea_population |-> 0, north_korea_population |-> 0,
     total_population |-> 0, sk_births_today |-> 0, sk_deaths_today |-> 0,
     nk_births_today |-> 0, nk_deaths_today |-> 0,
     seconds_since_midnight_kst |-> 0]

\* CountryData.calculate_birth_death_rates_per_second: annual count over
\* 365.25 * 24 * 60 * 60, kept as numerator and denominator
RatesPerSecond(data) ==
    [births |-> [num |-> data.annual_births, den |-> SecondsPerYear],
     deaths |-> [num |-> data.annual_deaths, den |-> SecondsPerYear]]

(***************************************************************************)
(* State.                                                                  *)
(***************************************************************************)
VARIABLES
    now,                  \* the wall clock, seconds since the epoch
    connected_clients,    \* PopulationManager.connected_clients, a list
    last_update_time,     \* PopulationManager.last_update_time
    last_resync_time,     \* PopulationManager.last_resync_time
    current_day,          \* PopulationManager.current_day
    south_korea_data,     \* PopulationManager.south_korea_data
    north_korea_data,     \* PopulationManager.north_korea_data
    simulation_rates,     \* sk/nk_births_per_sec, sk/nk_deaths_per_sec
    current_state,        \* the last PopulationState (sk_population, ...)
    bpc,                  \* where start_broadcasting is: "sleep", "send", "dead"
    wake_time,            \* when the pending asyncio.sleep may return
    message,              \* broadcast_update's message, while it runs
    it_index,             \* items the list iterator of the for loop has yielded
    sending_to,           \* the client whose send_text is awaited
    disconnected_clients, \* broadcast_update's local list
    hpc,                  \* where each viewer's websocket_endpoint is
    \* history, read by the properties only
    attempted,            \* viewers sent to in the tick in progress or last run
    whole_tick,           \* members at that tick's start not removed by
                          \* their handler since
    failed,               \* viewers whose send failed in that tick
    tick_done,            \* that tick's delivery loop and eviction are over
    left_now,             \* viewers whose handler removed them during that tick
    gone,                 \* viewers whose handler removed them during an
                          \* earlier tick
    evicted_absent,       \* viewers evicted after a failed send when their
                          \* handler had already removed them
    broadcaster_error,    \* an exception has left broadcast_update
    resync_log,           \* timestamps of the messages with is_resync true
    unsteady_at,          \* the last second at which a tick found no viewer,
                          \* or a tick was due or running and the clock moved on
    stale,                \* the statistics changed after current_state
    last_request,         \* the last administrative update: <<>> or <<r>>
    last_response,        \* how that request or call ended: "none" before
                          \* the first, "success" (HTTP 200), "rejected"
                          \* (HTTP 400), "returned" (a direct call)
    pre_update,           \* the updated country's statistics before it
    advances,             \* clock jumps taken (estimator specification)
    updates,              \* calls of the manager's update_base_data made
    tick_started,         \* when the last tick started, -1 before the first
    sent_count,           \* send_text calls per viewer in the tick in progress
    sent_messages,        \* the messages those calls were given
    first_sent,           \* the kind of the first message sent to each viewer
    initial_sends,        \* initial_state messages sent to each viewer
    initial_message       \* each handler's initial_message, while its send
                          \* is awaited

manager_vars == <<last_update_time, current_day, current_state, stale>>
stats_vars == <<south_korea_data, north_korea_data, simulation_rates,
                last_request, last_response, pre_update, updates>>
loop_vars == <<bpc, wake_time, message, it_index, sending_to,
               disconnected_clients>>
tick_history == <<attempted, whole_tick, failed, tick_done, left_now, gone,
                  evicted_absent, broadcaster_error>>
resync_vars == <<last_resync_time, resync_log>>
send_log == <<sent_count, sent_messages>>
initial_log == <<initial_sends, initial_message>>
delivery_history == <<tick_started, send_log, first_sent, initial_log>>

vars == <<now, connected_clients, hpc, manager_vars, stats_vars, loop_vars,
          tick_history, resync_vars, unsteady_at, advances, delivery_history>>

Viewers == 1..MaxViewers
\* the resync specification follows one viewer: the flag's code reads of the
\* membership only whether it is empty
ResyncViewers == {1}

\* the handler's message without its type tag
InitialUntagged(state, clock) ==
    [type |-> "update",
     data |-> [south_korea_population |-> state.south_korea_population,
               north_korea_population |-> state.north_korea_population,
               total_population |-> state.total_population,
               sk_births_today |-> state.sk_births_today,
               sk_deaths_today |-> state.sk_deaths_today,
               nk_births_today |-> state.nk_births_today,
               nk_deaths_today |-> state.nk_deaths_today]]
\* the handler's initial_message: its type and the fields of data taken from
\* the snapshot (event_indicators and the two empty event lists are
\* constants, korea_time is the clock reading `clock` formatted for display;
\* they are left out)
InitialMessage(state, clock) ==
    [type |-> "initial_state",
     data |-> [south_korea_population |-> state.south_korea_population,
               north_korea_population |-> state.north_korea_population,
               total_population |-> state.total_population,
               sk_births_today |-> state.sk_births_today,
               sk_deaths_today |-> state.sk_deaths_today,
               nk_births_today |-> state.nk_births_today,
               nk_deaths_today |-> state.nk_deaths_today]]

\* a handler with no initial send in progress
NoInitial == [type |-> "none", data |-> <<>>]

\* no send_text call yet in the tick
NoSends == [v \in Viewers |-> 0]

\* no tick message built yet
NoMessage == [timestamp |-> -1, is_resync |-> FALSE, state |-> NoState,
              korea_time |-> 0, simulation_rates |-> <<>>]

(***************************************************************************)
(* PopulationManager.__init__, and the lifespan task not yet run.          *)
(***************************************************************************)
InitManager(start_time) ==
    /\ now = start_time
    /\ connected_clients = <<>>
    /\ last_update_time = start_time
    /\ last_resync_time = start_time
    /\ current_day = KoreaDate(start_time)
    /\ south_korea_data = InitSouthKorea
    /\ north_korea_data = InitNorthKorea
    /\ simulation_rates = [sk |-> RatesPerSecond(InitSouthKorea),
                           nk |-> RatesPerSecond(InitNorthKorea)]
    /\ current_state = NoState
    /\ bpc = "sleep"
    /\ wake_time = start_time
    /\ message = NoMessage
    /\ it_index = 0
    /\ sending_to = 0
    /\ disconnected_clients = <<>>
    /\ hpc = [v \in Viewers |-> "new"]
    /\ attempted = {}
    /\ whole_tick = {}
    /\ failed = {}
    /\ tick_done = FALSE
    /\ left_now = {}
    /\ gone = {}
    /\ evicted_absent = {}
    /\ broadcaster_error = FALSE
    /\ resync_log = <<>>
    /\ unsteady_at = -1
    /\ stale = FALSE
    /\ last_request = <<>>
    /\ last_response = "none"
    /\ pre_update = InitSouthKorea
    /\ advances = 0
    /\ updates = 0
    /\ tick_started = -1
    /\ sent_count = NoSends
    /\ sent_messages = {}
    /\ first_sent = [v \in Viewers |-> "none"]
    /\ initial_sends = [v \in Viewers |-> 0]
    /\ initial_message = [v \in Viewers |-> NoInitial]

Init == InitManager(0)

(***************************************************************************)
(* Membership: add_client, remove_client.                                  *)
(***************************************************************************)
Members(clients) == {clients[i] : i \in 1..Len(clients)}

\* the new client put at the head of the list
AddClientFirst(clients, websocket) == <<websocket>> \o clients
\* list.append
add_client(clients, websocket) == Append(clients, websocket)

\* list.remove: drops the first occurrence, raises ValueError when absent
ListRemove(clients, websocket) ==
    IF websocket \in Members(clients)
    THEN LET i == CHOOSE k \in 1..Len(clients) :
                     /\ clients[k] = websocket
                     /\ \A j \in 1..(k - 1) : clients[j] # websocket
         IN  [clients |-> SubSeq(clients, 1, i - 1)
                          \o SubSeq(clients, i + 1, Len(clients)),
              raised |-> FALSE]
    ELSE [clients |-> clients, raised |-> TRUE]

\* remove_client without its membership test
RemoveUnguarded(clients, websocket) == ListRemove(clients, websocket)
\* remove_client: list.remove under "if websocket in self.connected_clients"
remove_client(clients, websocket) ==
    IF websocket \in Members(clients)
    THEN ListRemove(clients, websocket)
    ELSE [clients |-> clients, raised |-> FALSE]

\* the eviction by list.remove itself, without remove_client's test
RECURSIVE EvictAllUnguarded(_, _)
EvictAllUnguarded(clients, to_remove) ==
    IF to_remove = <<>> THEN [clients |-> clients, raised |-> FALSE]
    ELSE LET r == ListRemove(clients, Head(to_remove))
         IN  IF r.raised THEN r
             ELSE EvictAllUnguarded(r.clients, Tail(to_remove))
\* "for client in disconnected_clients: self.remove_client(client)";
\* an exception ends the loop
RECURSIVE EvictAll(_, _)
EvictAll(clients, to_remove) ==
    IF to_remove = <<>> THEN [clients |-> clients, raised |-> FALSE]
    ELSE LET r == remove_client(clients, Head(to_remove))
         IN  IF r.raised THEN r ELSE EvictAll(r.clients, Tail(to_remove))

(***************************************************************************)
(* calculate_current_population as a step of the manager: time.time()      *)
(* reads current_time, the date is read at date_clock and the seconds      *)
(* since midnight at seconds_clock.                                        *)
(***************************************************************************)
calculate_current_population(current_time, date_clock, seconds_clock) ==
    /\ current_state' = PopulationState(current_time, seconds_clock,
                                        south_korea_data, north_korea_data)
    /\ current_day' = KoreaDate(date_clock)
    /\ last_update_time' = current_time
    /\ stale' = FALSE

(***************************************************************************)
(* websocket_endpoint, one instance per viewer.                            *)
(***************************************************************************)
\* accept, add_client, the initial snapshot, and the initial send is awaited
Connect(v) ==
    /\ hpc[v] = "new"
    /\ connected_clients' = add_client(connected_clients, v)
    /\ calculate_current_population(now, now, now)
    /\ LET initial == InitialMessage(current_state', now)
       IN  /\ initial_message' = [initial_message EXCEPT ![v] = initial]
           /\ initial_sends' =
                  [initial_sends EXCEPT
                       ![v] = IF initial.type = "initial_state" THEN @ + 1 ELSE @]
           /\ first_sent' =
                  [first_sent EXCEPT ![v] = IF @ = "none" THEN initial.type ELSE @]
    /\ hpc' = [hpc EXCEPT ![v] = "initial"]
    /\ UNCHANGED <<now, stats_vars, loop_vars, tick_history, resync_vars,
                   unsteady_at, advances, tick_started, send_log>>

\* the initial send returns; the handler awaits receive_text
InitialSent(v) ==
    /\ hpc[v] = "initial"
    /\ hpc' = [hpc EXCEPT ![v] = "receive"]
    /\ initial_message' = [initial_message EXCEPT ![v] = NoInitial]
    /\ UNCHANGED <<now, connected_clients, manager_vars, stats_vars, loop_vars,
                   tick_history, resync_vars, unsteady_at, advances,
                   tick_started, send_log, first_sent, initial_sends>>

\* WebSocketDisconnect (or a failed initial send): finally remove_client
Disconnect(v) ==
    /\ hpc[v] \in {"initial", "receive"}
    /\ connected_clients' = remove_client(connected_clients, v).clients
    /\ hpc' = [hpc EXCEPT ![v] = "closed"]
    /\ left_now' = IF bpc = "send" THEN left_now \cup {v} ELSE left_now
    /\ whole_tick' = whole_tick \ {v}
    /\ initial_message' = [initial_message EXCEPT ![v] = NoInitial]
    /\ UNCHANGED <<now, manager_vars, stats_vars, loop_vars, attempted, failed,
                   tick_done, gone, evicted_absent, broadcaster_error,
                   resync_vars, unsteady_at, advances,
                   tick_started, send_log, first_sent, initial_sends>>

(***************************************************************************)
(* start_broadcasting and broadcast_update.                                *)
(***************************************************************************)
\* the comparison made against the time of the snapshot itself
IsResyncTimeStale(current_time, last_resync, interval) ==
    (current_time - current_time) >= interval
\* is_resync_time
IsResyncTime(current_time, last_resync, interval) ==
    (current_time - last_resync) >= interval

\* last_resync_time left as it was
KeepLastResync(current_time, last_resync, is_resync_time) == last_resync
\* "if is_resync_time: self.last_resync_time = current_time"
NextLastResync(current_time, last_resync, is_resync_time) ==
    IF is_resync_time THEN current_time ELSE last_resync

\* the message with the per-second rates as they were constructed
BuildMessageFirstRates(state, is_resync_time, rates, clock) ==
    [timestamp |-> state.timestamp, is_resync |-> is_resync_time,
     state |-> state, korea_time |-> get_seconds_since_midnight_kst(clock),
     simulation_rates |-> [sk |-> RatesPerSecond(InitSouthKorea),
                           nk |-> RatesPerSecond(InitNorthKorea)]]
\* the outbound message (event_indicators are constants and left out;
\* korea_time "%H:%M:%S" is carried as the second of the local day)
BuildMessage(state, is_resync_time, rates, clock) ==
    [timestamp |-> state.timestamp, is_resync |-> is_resync_time,
     state |-> state, korea_time |-> get_seconds_since_midnight_kst(clock),
     simulation_rates |-> rates]

\* one pass of "while True" up to its first suspension: the snapshot, then
\* broadcast_update up to the first awaited send_text, or, with no client,
\* its early return and the sleep
TickStart ==
    /\ bpc = "sleep"
    /\ now >= wake_time
    /\ calculate_current_population(now, now, now)
    /\ gone' = gone \cup left_now
    /\ left_now' = {}
    /\ failed' = {}
    /\ tick_started' = now
    /\ IF connected_clients = <<>>
       THEN /\ wake_time' = now + broadcast_interval
            /\ attempted' = {}
            /\ whole_tick' = {}
            /\ tick_done' = TRUE
            /\ unsteady_at' = now
            /\ sent_count' = NoSends
            /\ sent_messages' = {}
            /\ UNCHANGED <<bpc, message, it_index, sending_to,
                           disconnected_clients, resync_vars, first_sent>>
       ELSE LET is_resync_time ==
                    IsResyncTime(now, last_resync_time, resync_interval)
            IN  /\ last_resync_time' =
                       NextLastResync(now, last_resync_time, is_resync_time)
                /\ resync_log' = IF is_resync_time
                                 THEN Append(resync_log, now) ELSE resync_log
                /\ message' = BuildMessage(current_state', is_resync_time,
                                           simulation_rates, now)
                /\ disconnected_clients' = <<>>
                /\ it_index' = 1
                /\ sending_to' = connected_clients[1]
                /\ bpc' = "send"
                /\ attempted' = {connected_clients[1]}
                /\ whole_tick' = Members(connected_clients)
                /\ tick_done' = FALSE
                /\ sent_count' = [NoSends EXCEPT ![connected_clients[1]] = 1]
                /\ sent_messages' = {message'}
                /\ first_sent' =
                       [first_sent EXCEPT ![connected_clients[1]] =
                            IF @ = "none" THEN "tick" ELSE @]
                /\ UNCHANGED <<wake_time, unsteady_at>>
    /\ UNCHANGED <<now, connected_clients, hpc, stats_vars, evicted_absent,
                   broadcaster_error, advances, initial_log>>

\* the awaited send_text returns (ok) or raises; then the list iterator is
\* asked for its next item: the item at its index if the list, as it is now,
\* is that long, otherwise the loop ends, the failed clients are removed and
\* the sleep begins
SendDone(ok) ==
    /\ bpc = "send"
    /\ LET failed_clients == IF ok THEN disconnected_clients
                             ELSE Append(disconnected_clients, sending_to)
       IN  /\ failed' = IF ok THEN failed ELSE failed \cup {sending_to}
           /\ IF it_index < Len(connected_clients)
              THEN /\ it_index' = it_index + 1
                   /\ sending_to' = connected_clients[it_index + 1]
                   /\ attempted' = attempted \cup {connected_clients[it_index + 1]}
                   /\ disconnected_clients' = failed_clients
                   /\ sent_count' =
                          [sent_count EXCEPT ![connected_clients[it_index + 1]] = @ + 1]
                   /\ sent_messages' = sent_messages \cup {message}
                   /\ first_sent' =
                          [first_sent EXCEPT ![connected_clients[it_index + 1]] =
                               IF @ = "none" THEN "tick" ELSE @]
                   /\ UNCHANGED <<bpc, wake_time, connected_clients, tick_done,
                                  evicted_absent, broadcaster_error, message>>
              ELSE LET r == EvictAll(connected_clients, failed_clients)
                   IN  /\ connected_clients' = r.clients
                       /\ broadcaster_error' = r.raised
                       /\ bpc' = IF r.raised THEN "dead" ELSE "sleep"
                       /\ wake_time' = now + broadcast_interval
                       /\ evicted_absent' =
                              evicted_absent \cup
                              (Members(failed_clients) \ Members(connected_clients))
                       /\ tick_done' = TRUE
                       \* broadcast_update has returned: its locals are gone
                       /\ disconnected_clients' = <<>>
                       /\ it_index' = 0
                       /\ sending_to' = 0
                       /\ message' = NoMessage
                       /\ sent_count' = NoSends
                       /\ sent_messages' = {}
                       /\ UNCHANGED <<attempted, first_sent>>
    /\ UNCHANGED <<now, hpc, manager_vars, stats_vars, whole_tick,
                   left_now, gone, resync_vars, unsteady_at, advances,
                   tick_started, initial_log>>

\* a second passes; the event loop lets the broadcaster fall at most `late`
\* seconds behind its wake-up, and a tick's delivery take at most `late`
Advance(limit, late) ==
    /\ now < limit
    /\ ~(bpc = "sleep" /\ now >= wake_time + late)
    /\ ~(bpc = "send" /\ now >= message.timestamp + late)
    /\ now' = now + 1
    /\ unsteady_at' = IF bpc = "sleep" /\ now < wake_time
                       THEN unsteady_at ELSE now
    /\ UNCHANGED <<connected_clients, hpc, manager_vars, stats_vars, loop_vars,
                   tick_history, resync_vars, advances, delivery_history>>

Broadcast(viewers, limit, late) ==
    \/ \E v \in viewers : Connect(v)
    \/ \E v \in viewers : InitialSent(v)
    \/ \E v \in viewers : Disconnect(v)
    \/ TickStart
    \/ \E ok \in BOOLEAN : SendDone(ok)
    \/ Advance(limit, late)

Next == Broadcast(Viewers, MaxClock, MaxClock)

Spec == Init /\ [][Next]_vars

\* a step that starts a tick: TickStart, told by the one variable that only
\* it changes (resuming start_broadcasting when its sleep is over)
TickStarts ==
    /\ bpc = "sleep"
    /\ now >= wake_time
    /\ tick_started' = now

\* the liveness specification follows two viewers
LiveViewers == {1, 2}

NextLive == Broadcast(LiveViewers, MaxClock, MaxClock)

\* the broadcaster under the event loop's scheduling: a broadcaster whose
\* sleep is over is resumed, an awaited send_text returns or raises, and the
\* clock moves on
SpecLive ==
    /\ Init
    /\ [][NextLive]_vars
    /\ WF_tick_started(TickStarts)
    /\ WF_vars(\E ok \in BOOLEAN : SendDone(ok))
    /\ WF_vars(Advance(MaxClock, MaxClock))

NextResync == Broadcast(ResyncViewers, MaxTime, MaxLate)

SpecResync == Init /\ [][NextResync]_vars

(***************************************************************************)
(* The administrative update: update_base_data of main.py and of the       *)
(* manager.  A dict is a record of optional values, {} (key absent) or {x}.*)
(***************************************************************************)
\* dict.get with the missing key read as zero
GetOrZero(entry, default) ==
    IF entry = {} THEN 0 ELSE CHOOSE x \in entry : TRUE
\* new_data.get(key, default)
Get(entry, default) ==
    IF entry = {} THEN default ELSE CHOOSE x \in entry : TRUE

\* update_data as the endpoint prepares it from its query parameters
\* (births, deaths, growth_rate: {} when None)
update_data(population, year, births, deaths, growth_rate) ==
    [population |-> {population}, year |-> {year}, date |-> {year},
     births |-> births, deaths |-> deaths, growth_rate |-> growth_rate]

\* the six assignments of one branch of PopulationManager.update_base_data
UpdateCountry(data, new_data) ==
    [base_population |-> Get(new_data.population, data.base_population),
     base_year |-> Get(new_data.year, data.base_year),
     base_date |-> Get(new_data.date, data.base_date),
     annual_births |-> Get(new_data.births, data.annual_births),
     annual_deaths |-> Get(new_data.deaths, data.annual_deaths),
     annual_growth_rate |-> Get(new_data.growth_rate, data.annual_growth_rate)]

\* str.lower() on the country names that requests carry
Lower(country) ==
    CASE country = "SOUTH_KOREA" -> SK
      [] country = "NORTH_KOREA" -> NK
      [] country = "JAPAN" -> "japan"
      [] OTHER -> country

\* update_base_data with "else" for its second branch
UpdateElseNorth(country, new_data) ==
    /\ south_korea_data' = IF Lower(country) = SK
                           THEN UpdateCountry(south_korea_data, new_data)
                           ELSE south_korea_data
    /\ north_korea_data' = IF Lower(country) # SK
                           THEN UpdateCountry(north_korea_data, new_data)
                           ELSE north_korea_data
    /\ simulation_rates' =
           [sk |-> IF Lower(country) = SK THEN RatesPerSecond(south_korea_data')
                   ELSE simulation_rates.sk,
            nk |-> IF Lower(country) # SK THEN RatesPerSecond(north_korea_data')
                   ELSE simulation_rates.nk]
\* update_base_data without the recalculation of the per-second rates
UpdateKeepRates(country, new_data) ==
    /\ south_korea_data' = IF Lower(country) = SK
                           THEN UpdateCountry(south_korea_data, new_data)
                           ELSE south_korea_data
    /\ north_korea_data' = IF Lower(country) = NK
                           THEN UpdateCountry(north_korea_data, new_data)
                           ELSE north_korea_data
    /\ simulation_rates' = simulation_rates
\* PopulationManager.update_base_data (sk_daily_increment and
\* nk_daily_increment, which nothing reads, are left out)
update_base_data(country, new_data) ==
    /\ south_korea_data' = IF Lower(country) = SK
                           THEN UpdateCountry(south_korea_data, new_data)
                           ELSE south_korea_data
    /\ north_korea_data' = IF Lower(country) = NK
                           THEN UpdateCountry(north_korea_data, new_data)
                           ELSE north_korea_data
    /\ simulation_rates' =
           [sk |-> IF Lower(country) = SK THEN RatesPerSecond(south_korea_data')
                   ELSE simulation_rates.sk,
            nk |-> IF Lower(country) = NK THEN RatesPerSecond(north_korea_data')
                   ELSE simulation_rates.nk]

Countries == {SK, NK}
\* values an administrator supplies
Populations == {1000}
Years == {2025}
BirthCounts == {{}, {0}}
DeathCounts == {{}, {2000}}
GrowthRates == {{}, {40}}

\* POST /api/admin/update-base-data with the admin key and a known country
AdminUpdate(country, population, year, births, deaths, growth_rate) ==
    /\ updates < MaxUpdates
    /\ Lower(country) \in Countries
    /\ update_base_data(Lower(country),
                        update_data(population, year, births, deaths, growth_rate))
    /\ last_request' = <<[country |-> country, births |-> births,
                          deaths |-> deaths, growth_rate |-> growth_rate]>>
    /\ last_response' = "success"
    /\ pre_update' = IF Lower(country) = SK THEN south_korea_data
                     ELSE north_korea_data
    /\ updates' = updates + 1
    /\ stale' = TRUE
    /\ UNCHANGED <<now, connected_clients, hpc, last_update_time, current_day,
                   current_state, loop_vars, tick_history, resync_vars,
                   unsteady_at, advances, delivery_history>>

\* GET /api/realtime/current: calculate_current_population, the clock moving
\* on by lag_date and lag seconds before its second and third read
Calculate(lag_date, lag) ==
    /\ lag > 0 => advances < MaxAdvances
    /\ calculate_current_population(now, now + lag_date, now + lag)
    /\ now' = now + lag
    /\ advances' = IF lag > 0 THEN advances + 1 ELSE advances
    /\ UNCHANGED <<connected_clients, hpc, stats_vars, loop_vars, tick_history,
                   resync_vars, unsteady_at, delivery_history>>

\* time passes between requests
AdvanceBy(d) ==
    /\ advances < MaxAdvances
    /\ now' = now + d
    /\ advances' = advances + 1
    /\ UNCHANGED <<connected_clients, hpc, manager_vars, stats_vars, loop_vars,
                   tick_history, resync_vars, unsteady_at, delivery_history>>

\* seconds the clock moves on between the clock reads of one
\* calculate_current_population call: it crosses a second boundary or not
ReadLags == {0, 1}

\* clock readings the estimator is started at: the epoch, a second before
\* the first local midnight after it, a second before epoch + 365.25 days
StartTimes == {base_timestamp, SecondsPerDay - KstOffset - 1, SecondsPerYear - 1}
\* a second, and a day less a second
Steps == {1, SecondsPerDay - 1}

InitEstimator == \E t \in StartTimes : InitManager(t)

NextEstimator ==
    \/ \E d \in Steps : AdvanceBy(d)
    \/ \E lag \in ReadLags : \E lag_date \in 0..lag : Calculate(lag_date, lag)
    \/ \E c \in Countries, p \in Populations, y \in Years, b \in BirthCounts,
          d \in DeathCounts, g \in GrowthRates : AdminUpdate(c, p, y, b, d, g)

SpecEstimator == InitEstimator /\ [][NextEstimator]_vars

\* the statistics of a country
DataOf(country) ==
    IF Lower(country) = SK THEN south_korea_data ELSE north_korea_data

\* the estimator with an administrator who moves a country's base year and
\* resupplies the population it has
NextRebase ==
    \/ \E d \in Steps : AdvanceBy(d)
    \/ \E lag \in ReadLags : \E lag_date \in 0..lag : Calculate(lag_date, lag)
    \/ \E c \in Countries, y \in Years :
           AdminUpdate(c, DataOf(c).base_population, y, {}, {}, {})

SpecRebase == InitEstimator /\ [][NextRebase]_vars

\* POST /api/admin/update-base-data with the admin key and a country that is,
\* in lower case, neither south_korea nor north_korea: HTTPException 400,
\* raised before update_data is prepared
AdminRejected(country, population, year, births, deaths, growth_rate) ==
    /\ Lower(country) \notin Countries
    /\ last_request' = <<[country |-> country, births |-> births,
                          deaths |-> deaths, growth_rate |-> growth_rate]>>
    /\ last_response' = "rejected"
    /\ UNCHANGED <<now, connected_clients, hpc, manager_vars, south_korea_data,
                   north_korea_data, simulation_rates, pre_update, updates,
                   loop_vars, tick_history, resync_vars, unsteady_at, advances,
                   delivery_history>>

\* PopulationManager.update_base_data called by a caller that has not
\* validated the country
ManagerUpdate(country, new_data) ==
    /\ updates < MaxUpdates
    /\ update_base_data(country, new_data)
    /\ last_request' = <<[country |-> country, births |-> new_data.births,
                          deaths |-> new_data.deaths,
                          growth_rate |-> new_data.growth_rate]>>
    /\ last_response' = "returned"
    /\ pre_update' = IF Lower(country) \in Countries THEN DataOf(country)
                     ELSE pre_update
    /\ updates' = updates + 1
    /\ stale' = (stale \/ Lower(country) \in Countries)
    /\ UNCHANGED <<now, connected_clients, hpc, last_update_time, current_day,
                   current_state, loop_vars, tick_history, resync_vars,
                   unsteady_at, advances, delivery_history>>

\* country names that requests and callers give
RequestCountries == {"south_korea", "NORTH_KOREA", "japan"}

\* the broadcaster with one viewer, the accessor, and an administrator and
\* another caller of update_base_data at work meanwhile
NextAdmin ==
    \/ Broadcast(ResyncViewers, MaxLate, MaxLate)
    \/ Calculate(0, 0)
    \/ \E c \in RequestCountries, p \in Populations, y \in Years,
          b \in BirthCounts : AdminUpdate(c, p, y, b, {}, {})
    \/ \E c \in RequestCountries, p \in Populations, y \in Years :
           AdminRejected(c, p, y, {}, {}, {})
    \/ \E c \in RequestCountries, p \in Populations, y \in Years :
           ManagerUpdate(c, update_data(p, y, {}, {}, {}))

SpecAdmin == Init /\ [][NextAdmin]_vars

(***************************************************************************)
(* Properties of the broadcaster.                                          *)
(***************************************************************************)
\* C1: when a tick's delivery is over, every viewer that was in
\* connected_clients when the tick started and that no handler removed has
\* been sent to in that tick, whatever other viewers were added or removed
\* while the loop was suspended in a send.
C1_EveryMemberAttempted ==
    tick_done => whole_tick \subseteq attempted

\* C2: after a tick in which a send failed, the failed viewer is no longer a
\* member, and every other viewer that was a member from the tick's start on
\* was sent to in that tick and is still a member.
C2_FailedSendIsolated ==
    (tick_done /\ failed # {}) =>
        /\ failed \cap Members(connected_clients) = {}
        /\ (whole_tick \ failed) \subseteq attempted
        /\ (whole_tick \ failed) \subseteq Members(connected_clients)

\* C3: a viewer whose handler ran remove_client while a tick's delivery loop
\* was suspended is sent to in no later tick, and no exception leaves
\* broadcast_update, also when that viewer's send had failed and it is
\* evicted after its handler removed it.
C3_DisconnectedNeverSentAgain ==
    /\ attempted \cap gone = {}
    /\ ~broadcaster_error

\* C3, its case: a viewer left during a tick, was evicted when already
\* removed, and a later tick has delivered to another viewer.
C3_Witness ==
    /\ gone \cap evicted_absent # {}
    /\ attempted # {}
    /\ tick_done
    /\ ~broadcaster_error

\* the timestamp of the last message with is_resync true, or the time of
\* construction
LastFlagged ==
    IF resync_log = <<>> THEN 0 ELSE resync_log[Len(resync_log)]

\* C4: any two messages with is_resync true are at least resync_interval
\* apart, the first at least resync_interval after construction; the flag of
\* the message being delivered is true exactly when last_resync_time was set
\* to its timestamp, and last_resync_time is always the timestamp of the
\* last flagged message.
C4_ResyncSpacing ==
    /\ \A i, j \in 1..Len(resync_log) :
           i < j => resync_log[j] - resync_log[i] >= resync_interval
    /\ resync_log # <<>> => resync_log[1] >= resync_interval
    /\ last_resync_time = LastFlagged
    /\ bpc = "send" =>
           IF message.is_resync
           THEN last_resync_time = message.timestamp
           ELSE message.timestamp - last_resync_time < resync_interval

\* C4, its case: two flagged messages have been sent.
C4_Witness ==
    Len(resync_log) >= 2

\* the flagged messages with a timestamp in the last 2 * resync_interval
\* (60) seconds
FlaggedInWindow ==
    {i \in 1..Len(resync_log) : resync_log[i] >= now - 2 * resync_interval}

Fresh == current_state.timestamp >= 0 /\ ~stale

\* C6: a snapshot taken at exactly the epoch gives each country its
\* base_population, whatever the statistics are.
C6_EpochGivesBase ==
    (Fresh /\ current_state.timestamp = base_timestamp) =>
        /\ current_state.south_korea_population = south_korea_data.base_population
        /\ current_state.north_korea_population = north_korea_data.base_population

\* C6, its case: a snapshot at the epoch from statistics an administrator
\* has replaced.
C6_Witness ==
    /\ Fresh
    /\ current_state.timestamp = base_timestamp
    /\ updates > 0
    /\ south_korea_data.base_population # InitSouthKorea.base_population

\* population p1 estimated at a time t1 against the estimate for the later
\* time t2 from the same statistics
MonotoneFor(data, p1, t2) ==
    /\ data.annual_growth_rate > 0 => EstimatePopulation(data, t2) >= p1
    /\ data.annual_growth_rate < 0 => EstimatePopulation(data, t2) <= p1

\* C7: with the statistics unchanged, the estimate for the present time is
\* not below the last snapshot's when annual_growth_rate > 0 and not above
\* it when annual_growth_rate < 0, for snapshots taken at or after the
\* epoch (base_population is a count, 0 or more).
C7_Monotone ==
    (Fresh /\ current_state.timestamp >= base_timestamp
           /\ now >= current_state.timestamp) =>
        /\ MonotoneFor(south_korea_data, current_state.south_korea_population, now)
        /\ MonotoneFor(north_korea_data, current_state.north_korea_population, now)

\* C7, its case: since the snapshot one country's estimate has fallen and
\* the other's has risen.
C7_Witness ==
    /\ Fresh
    /\ now > current_state.timestamp
    /\ south_korea_data.annual_growth_rate < 0
    /\ EstimatePopulation(south_korea_data, now)
           < current_state.south_korea_population
    /\ north_korea_data.annual_growth_rate > 0
    /\ EstimatePopulation(north_korea_data, now)
           > current_state.north_korea_population

\* the clock reading the snapshot's seconds_since_midnight_kst was taken
\* from: its timestamp or the second after
SecondsClock(state) ==
    state.timestamp
        + ((state.seconds_since_midnight_kst
              - get_seconds_since_midnight_kst(state.timestamp)) % SecondsPerDay)

\* a births_today or deaths_today value of the last snapshot against its
\* annual count: 0 at local midnight, not above the value for the present
\* time later the same local day, and 0 at the present time when that is the
\* first instant of a later local day
DailyCountFor(annual_count, today) ==
    /\ current_state.seconds_since_midnight_kst = 0 => today = 0
    /\ (/\ KoreaDate(now) = KoreaDate(SecondsClock(current_state))
        /\ now >= SecondsClock(current_state))
           => EventsToday(annual_count, get_seconds_since_midnight_kst(now)) >= today
    /\ (/\ KoreaDate(now) > KoreaDate(SecondsClock(current_state))
        /\ get_seconds_since_midnight_kst(now) = 0)
           => EventsToday(annual_count, get_seconds_since_midnight_kst(now)) = 0

\* today < annual_count / 365.25
StrictlyBelowDaily(annual_count, today) == today * 36525 < annual_count * 100

\* C8 as stated: births_today and deaths_today of either country are 0 at
\* local midnight, non-decreasing through the local day, 0 again at the next
\* local midnight, and always strictly below annual_count / 365.25.
C8_Original ==
    Fresh =>
        /\ DailyCountFor(south_korea_data.annual_births, current_state.sk_births_today)
        /\ DailyCountFor(south_korea_data.annual_deaths, current_state.sk_deaths_today)
        /\ DailyCountFor(north_korea_data.annual_births, current_state.nk_births_today)
        /\ DailyCountFor(north_korea_data.annual_deaths, current_state.nk_deaths_today)
        /\ StrictlyBelowDaily(south_korea_data.annual_births, current_state.sk_births_today)
        /\ StrictlyBelowDaily(south_korea_data.annual_deaths, current_state.sk_deaths_today)
        /\ StrictlyBelowDaily(north_korea_data.annual_births, current_state.nk_births_today)
        /\ StrictlyBelowDaily(north_korea_data.annual_deaths, current_state.nk_deaths_today)

\* strictly below annual_count / 365.25 for a positive annual count, and 0,
\* which is annual_count / 365.25, for an annual count of 0
BelowDaily(annual_count, today) ==
    IF annual_count > 0 THEN StrictlyBelowDaily(annual_count, today)
    ELSE today = 0

\* C8 as amended: as stated, but strictly below annual_count / 365.25 only
\* for a positive annual count; with an annual count of 0 the value is 0.
C8_Amended ==
    Fresh =>
        /\ DailyCountFor(south_korea_data.annual_births, current_state.sk_births_today)
        /\ DailyCountFor(south_korea_data.annual_deaths, current_state.sk_deaths_today)
        /\ DailyCountFor(north_korea_data.annual_births, current_state.nk_births_today)
        /\ DailyCountFor(north_korea_data.annual_deaths, current_state.nk_deaths_today)
        /\ BelowDaily(south_korea_data.annual_births, current_state.sk_births_today)
        /\ BelowDaily(south_korea_data.annual_deaths, current_state.sk_deaths_today)
        /\ BelowDaily(north_korea_data.annual_births, current_state.nk_births_today)
        /\ BelowDaily(north_korea_data.annual_deaths, current_state.nk_deaths_today)

\* C8, its case: a snapshot in the last second of a local day with a
\* positive count, and the clock at the first instant of the next local day.
C8_Witness ==
    /\ Fresh
    /\ current_state.seconds_since_midnight_kst = SecondsPerDay - 1
    /\ current_state.sk_births_today > 0
    /\ current_state.nk_deaths_today > 0
    /\ KoreaDate(now) > KoreaDate(SecondsClock(current_state))
    /\ get_seconds_since_midnight_kst(now) = 0

\* a snapshot at epoch + 365.25 days from South Korea's statistics with
\* base_population 51628117 and annual_growth_rate -0.21
OneYearSouthKorea ==
    /\ Fresh
    /\ current_state.timestamp = base_timestamp + SecondsPerYear
    /\ south_korea_data.base_population = 51628117
    /\ south_korea_data.annual_growth_rate = -21

\* C9 as stated: that snapshot's South Korea population is 51520712.
C9_Original ==
    OneYearSouthKorea => current_state.south_korea_population = 51520712

\* C9 as amended: that snapshot's South Korea population is 51519697, the
\* truncation of 51628117 - 108419.0457.
C9_Amended ==
    OneYearSouthKorea => current_state.south_korea_population = 51519697

\* C9, its case: the snapshot at epoch + 365.25 days has been taken.
C9_Witness ==
    OneYearSouthKorea

\* the last administrative update supplied growth_rate and neither births
\* nor deaths
GrowthOnlyUpdate ==
    /\ last_request # <<>>
    /\ last_request[1].births = {}
    /\ last_request[1].deaths = {}
    /\ last_request[1].growth_rate # {}

\* the statistics of the country the last administrative update named
UpdatedData ==
    IF Lower(last_request[1].country) = SK THEN south_korea_data
    ELSE north_korea_data

\* C10: after an update that supplied growth_rate and neither births nor
\* deaths, the country's annual_births and annual_deaths are what they were
\* before it, and so are births_today and deaths_today for the present
\* instant.
C10_GrowthOnlyKeepsCounts ==
    GrowthOnlyUpdate =>
        LET seconds_today == get_seconds_since_midnight_kst(now)
        IN  /\ UpdatedData.annual_births = pre_update.annual_births
            /\ UpdatedData.annual_deaths = pre_update.annual_deaths
            /\ EventsToday(UpdatedData.annual_births, seconds_today)
                   = EventsToday(pre_update.annual_births, seconds_today)
            /\ EventsToday(UpdatedData.annual_deaths, seconds_today)
                   = EventsToday(pre_update.annual_deaths, seconds_today)

\* C10, its case: a growth-only update that changed the growth rate, at an
\* instant with births and deaths today above 0.
C10_Witness ==
    /\ GrowthOnlyUpdate
    /\ UpdatedData.annual_growth_rate # pre_update.annual_growth_rate
    /\ EventsToday(UpdatedData.annual_births,
                   get_seconds_since_midnight_kst(now)) > 0
    /\ EventsToday(UpdatedData.annual_deaths,
                   get_seconds_since_midnight_kst(now)) > 0

\* C11: after an administrative update through the endpoint, each of the
\* updated country's base_date, annual_births, annual_deaths and
\* annual_growth_rate that the request did not supply is what it was before
\* the update (the endpoint has no date parameter: a request never supplies
\* base_date).
C11_OmittedFieldsUnchanged ==
    last_request # <<>> =>
        /\ UpdatedData.base_date = pre_update.base_date
        /\ last_request[1].births = {} =>
               UpdatedData.annual_births = pre_update.annual_births
        /\ last_request[1].deaths = {} =>
               UpdatedData.annual_deaths = pre_update.annual_deaths
        /\ last_request[1].growth_rate = {} =>
               UpdatedData.annual_growth_rate = pre_update.annual_growth_rate

\* the last administrative update changed base_year and base_date of its
\* country and nothing else
RebaseOnly ==
    /\ last_request # <<>>
    /\ UpdatedData = [pre_update EXCEPT !.base_year = UpdatedData.base_year,
                                        !.base_date = UpdatedData.base_date]

\* the population the last snapshot gives the country of the last update
UpdatedPopulation ==
    IF Lower(last_request[1].country) = SK
    THEN current_state.south_korea_population
    ELSE current_state.north_korea_population

\* the statistics with another base year and base date
Rebased(data, year) == [data EXCEPT !.base_year = year, !.base_date = year]

\* C12: a snapshot's populations are those estimated for its instant from
\* statistics that differ only in base_year and base_date, the elapsed time
\* being measured from the epoch; in particular, after an update that changed
\* only base_year and base_date, the snapshot gives the country the
\* population its statistics before the update give for the same instant.
C12_IndependentOfBaseDate ==
    Fresh =>
        /\ \A y \in Years \cup {InitSouthKorea.base_year} :
               /\ EstimatePopulation(Rebased(south_korea_data, y),
                                     current_state.timestamp)
                      = current_state.south_korea_population
               /\ EstimatePopulation(Rebased(north_korea_data, y),
                                     current_state.timestamp)
                      = current_state.north_korea_population
        /\ RebaseOnly =>
               UpdatedPopulation
                   = EstimatePopulation(pre_update, current_state.timestamp)

\* C12, its case: a snapshot after the epoch, taken after an update that
\* moved the base year and resupplied the population, the estimate having
\* left the base population.
C12_Witness ==
    /\ Fresh
    /\ RebaseOnly
    /\ UpdatedData.base_date # pre_update.base_date
    /\ current_state.timestamp > base_timestamp
    /\ UpdatedPopulation # UpdatedData.base_population

(***************************************************************************)
(* Properties of the tick cadence and of delivery.                         *)
(***************************************************************************)
\* C13: a tick that starts the moment its sleep is over starts
\* broadcast_interval (1 second) after the start of the tick before it,
\* however long that tick's delivery took.
C13_FixedStartInterval ==
    [][(/\ tick_started >= 0
        /\ tick_started' # tick_started
        /\ now = wake_time)
           => tick_started' - tick_started = broadcast_interval]_vars

\* C14: a viewer whose handler has not run has been sent nothing; from its
\* connection on it has been sent exactly one initial_state message, and
\* that message was the first sent to it, whatever ticks ran since it was
\* added to connected_clients; the message is built from the snapshot taken
\* in the step that connected the viewer.
C14_InitialStateFirst ==
    /\ [](\A v \in Viewers :
            /\ hpc[v] = "new" =>
                   first_sent[v] = "none" /\ initial_sends[v] = 0
            /\ hpc[v] # "new" =>
                   first_sent[v] = "initial_state" /\ initial_sends[v] = 1)
    /\ [][\A v \in Viewers :
            (hpc[v] = "new" /\ hpc'[v] = "initial") =>
                initial_message'[v] =
                    InitialMessage(PopulationState(now, now, south_korea_data,
                                                   north_korea_data), now)]_vars

\* C14, its case: a tick is sending to a viewer that was added to
\* connected_clients and whose initial send is still awaited.
C14_Witness ==
    /\ bpc = "send"
    /\ sending_to \in Viewers
    /\ hpc[sending_to] = "initial"
    /\ sent_count[sending_to] = 1
    /\ initial_message[sending_to].type = "initial_state"

C17_AtMostOncePerTick ==
    /\ \A v \in Viewers : sent_count[v] <= 1
    /\ Cardinality(sent_messages) <= 1
    /\ bpc = "send" => sent_messages = {message}

\* C17, its case: a tick has sent to two viewers, one added to
\* connected_clients while the loop was suspended, the other removed by its
\* handler during the tick.
C17_Witness ==
    /\ bpc = "send"
    /\ \E v \in Viewers :
           sent_count[v] = 1 /\ v \notin whole_tick /\ v \notin left_now
    /\ \E v \in Viewers : sent_count[v] = 1 /\ v \in left_now

(***************************************************************************)
(* Properties of the administrative update and of the snapshots.           *)
(***************************************************************************)
\* C16: a request or call that names a country other than south_korea and
\* north_korea (the names compared in lower case, as the code does) changes
\* neither country's statistics nor the cached per-second rates; through the
\* endpoint it is rejected without a call of the manager, and a direct call
\* of PopulationManager.update_base_data returns.
C16_UnknownCountryNoChange ==
    [][(/\ <<last_request, last_response, updates>>'
               # <<last_request, last_response, updates>>
        /\ Lower(last_request'[1].country) \notin Countries)
           => /\ UNCHANGED <<south_korea_data, north_korea_data,
                             simulation_rates>>
              /\ last_response' \in {"rejected", "returned"}
              /\ last_response' = "rejected" => updates' = updates]_vars

\* C16, its case: the manager has been called with an unknown country, the
\* statistics and rates are as constructed, and the endpoint has then
\* rejected a request.
C16_Witness ==
    /\ last_response = "rejected"
    /\ Lower(last_request[1].country) \notin Countries
    /\ updates > 0
    /\ south_korea_data = InitSouthKorea
    /\ north_korea_data = InitNorthKorea
    /\ simulation_rates = [sk |-> RatesPerSecond(InitSouthKorea),
                           nk |-> RatesPerSecond(InitNorthKorea)]

\* total_population of a snapshot, or of the data of a message, is the sum
\* of its two populations
TotalIsSum(fields) ==
    fields.total_population
        = fields.south_korea_population + fields.north_korea_population

\* C18: in the last snapshot, in the tick message being delivered and in
\* every initial_state message whose send is awaited, total_population is
\* south_korea_population + north_korea_population.
C18_TotalIsSum ==
    /\ current_state.timestamp >= 0 => TotalIsSum(current_state)
    /\ bpc = "send" => TotalIsSum(message.state)
    /\ \A m \in sent_messages : TotalIsSum(m.state)
    /\ \A v \in Viewers :
           initial_message[v].type # "none" => TotalIsSum(initial_message[v].data)

\* C18, its case: a tick message built after an update of South Korea's
\* population is being delivered while an initial_state message built
\* before the update is still being sent.
C18_Witness ==
    /\ bpc = "send"
    /\ message.state.south_korea_population = south_korea_data.base_population
    /\ south_korea_data.base_population # InitSouthKorea.base_population
    /\ message.state.total_population
           = south_korea_data.base_population + InitNorthKorea.base_population
    /\ \E v \in Viewers :
           /\ initial_message[v].type = "initial_state"
           /\ initial_message[v].data.total_population
                  = InitSouthKorea.base_population + InitNorthKorea.base_population

\* C19: a snapshot's seconds_since_midnight_kst is (timestamp + 32400) mod
\* 86400, the seconds since local midnight at its own timestamp, and its
\* births_today and deaths_today are the counts for that second, although
\* the clock is read once for the timestamp and again for the seconds.
C19_SingleInstant ==
    LET seconds_today == (current_state.timestamp + KstOffset) % SecondsPerDay
    IN  /\ current_state.timestamp >= 0 =>
               current_state.seconds_since_midnight_kst = seconds_today
        /\ Fresh =>
               /\ current_state.sk_births_today
                      = EventsToday(south_korea_data.annual_births, seconds_today)
               /\ current_state.sk_deaths_today
                      = EventsToday(south_korea_data.annual_deaths, seconds_today)
               /\ current_state.nk_births_today
                      = EventsToday(north_korea_data.annual_births, seconds_today)
               /\ current_state.nk_deaths_today
                      = EventsToday(north_korea_data.annual_deaths, seconds_today)

\* the per-second rates that a generation of the statistics gives
RatesOf(sk_data, nk_data) ==
    [sk |-> RatesPerSecond(sk_data), nk |-> RatesPerSecond(nk_data)]

\* C20: a step that computes a snapshot computes all of it from the
\* statistics as they are before the step, and does not change them; a step
\* that changes the tick message either discards it or builds all of it, the
\* snapshot it carries and its per-second rates, from those same statistics;
\* so no step of an update falls between the reads of a snapshot or of a
\* message, and a message being delivered is not touched by an update.
C20_OneGeneration ==
    [][/\ current_state' # current_state =>
              /\ current_state' =
                     PopulationState(current_state'.timestamp,
                                     SecondsClock(current_state'),
                                     south_korea_data, north_korea_data)
              /\ UNCHANGED <<south_korea_data, north_korea_data,
                             simulation_rates>>
       /\ (message' # message /\ message' # NoMessage) =>
              /\ message'.state =
                     PopulationState(message'.timestamp, message'.timestamp,
                                     south_korea_data, north_korea_data)
              /\ message'.simulation_rates
                     = RatesOf(south_korea_data, north_korea_data)
              /\ UNCHANGED <<south_korea_data, north_korea_data,
                             simulation_rates>>
       /\ \A v \in Viewers :
              (initial_message'[v] # initial_message[v]
                   /\ initial_message'[v] # NoInitial) =>
                  initial_message'[v] =
                      InitialMessage(PopulationState(now, now, south_korea_data,
                                                     north_korea_data), now)]_vars

\* C20, its case: an update has changed South Korea's statistics and rates
\* while a tick's delivery was suspended; the message being delivered is
\* the one built from the statistics before the update.
C20_Witness ==
    /\ bpc = "send"
    /\ updates > 0
    /\ message.simulation_rates.sk # simulation_rates.sk
    /\ message.simulation_rates = RatesOf(InitSouthKorea, InitNorthKorea)
    /\ message.state = PopulationState(message.timestamp, message.timestamp,
                                       InitSouthKorea, InitNorthKorea)
    /\ south_korea_data.base_population # InitSouthKorea.base_population

\* the cached per-second rates are annual_births and annual_deaths of data
\* over 365.25 * 86400 (a rate is kept as numerator and denominator)
DerivedFrom(rates, data) ==
    /\ rates.births.num = data.annual_births
    /\ rates.births.den = SecondsPerYear
    /\ rates.deaths.num = data.annual_deaths
    /\ rates.deaths.den = SecondsPerYear

\* a request or call of this step reached update_base_data for `country`
UpdateStepFor(country) ==
    /\ updates' = updates + 1
    /\ Lower(last_request'[1].country) = country

\* C21: after construction and after any updates, sk_births_per_sec and
\* sk_deaths_per_sec are south_korea_data's annual_births and annual_deaths
\* over 365.25 * 86400, and likewise for North Korea; a tick message is
\* built with those rates; and an update of one country changes neither
\* the other country's statistics nor its cached rates.
C21_RatesFollowStatistics ==
    /\ [](/\ DerivedFrom(simulation_rates.sk, south_korea_data)
          /\ DerivedFrom(simulation_rates.nk, north_korea_data))
    /\ [][/\ (message' # message /\ message' # NoMessage) =>
                 /\ DerivedFrom(message'.simulation_rates.sk, south_korea_data)
                 /\ DerivedFrom(message'.simulation_rates.nk, north_korea_data)
          /\ UpdateStepFor(SK) =>
                 /\ north_korea_data' = north_korea_data
                 /\ simulation_rates'.nk = simulation_rates.nk
          /\ UpdateStepFor(NK) =>
                 /\ south_korea_data' = south_korea_data
                 /\ simulation_rates'.sk = simulation_rates.sk]_vars

\* C21, its case: an update has given South Korea other annual births, its
\* cached rate has followed, North Korea's statistics and rates are as
\* constructed, and a tick message is being delivered with the new rates.
C21_Witness ==
    /\ updates > 0
    /\ last_response = "success"
    /\ south_korea_data.annual_births # InitSouthKorea.annual_births
    /\ simulation_rates.sk.births.num = south_korea_data.annual_births
    /\ north_korea_data = InitNorthKorea
    /\ simulation_rates.nk = RatesPerSecond(InitNorthKorea)
    /\ bpc = "send"
    /\ message.simulation_rates = simulation_rates

====
